---- MODULE Spec2Model ----
(***************************************************************************)
(* pubproxpy: ProxyFetcher and the process-wide _FetcherShared singleton   *)
(* (src/pubproxpy/fetcher.py).                                             *)
(*                                                                         *)
(* One interpreter thread runs the calls, so at most one get()/drain() is  *)
(* active.  A call that needs the upstream is split at its blocking        *)
(* points: one step enters get() and runs it up to the first _fetch(); in  *)
(* every loop iteration one step is _fetch()'s rate-limit sleep, one sends *)
(* its request, and one takes the response and, when the loop ends with    *)
(* it, runs the rest of get().  The clock ticks between the steps.         *)
(*                                                                         *)
(* Time is counted in ticks.  A timestamp is held as its distance to       *)
(* dt.now(), the only way the code reads it (line 218), and the distance   *)
(* stops growing at REQUEST_DELAY, the only value it is compared with.     *)
(***************************************************************************)
EXTENDS Integers, Sequences, FiniteSets, TLC

\* ------------------------------------------------------------------ bounds
NumProxies == 2          \* proxies the upstream knows
MaxAmount == 2           \* largest amount passed to get()

\* The rate-limit window, in ticks.
REQUEST_DELAY == 2

Proxies == 1..NumProxies
Fetchers == {"pf1", "pf2"}

\* Optional[dt]
None == <<>>
Some(t) == <<t>>

\* self._params as _setup_params leaves it (test_params, lines 58-66)
AnonParams == [format |-> "json", limit |-> 5]
PremiumParams == [api |-> "<key>", format |-> "json", limit |-> 20]

VARIABLES
    last_requested,   \* _FetcherShared.last_requested: None or Some(age)
    used,             \* _FetcherShared.used
    _proxies,         \* self._proxies of every fetcher
    _exclude_used,    \* self._exclude_used of every fetcher
    _params,          \* self._params of every fetcher
    pc,               \* "idle"; "fetch": get()'s loop is entering _fetch();
                      \* "request": _fetch() is past its sleep, at requests.get;
                      \* "response": the request is sent, the answer awaited
    call,             \* the call in progress or, when idle, the last one: its
                      \* operation, fetcher and amount, whether it directly
                      \* follows a drain() of that fetcher that returned, and
                      \* whether it has issued an upstream request
    outcome,          \* "none", "pending", "returned" or the exception raised
    temp,             \* what the call returned
    since_dispatch,   \* None or Some(age of the last request's dispatch)
    log,              \* who returned which proxy so far (kept by BlacklistSpec only)
    ctor              \* the ProxyFetcher(**params) constructed by SetupSpec: its
                      \* keyword arguments, the environment's credential, how it
                      \* ended and the self._params it set

vars == <<last_requested, used, _proxies, _exclude_used, _params, pc, call,
          outcome, temp, since_dispatch, log, ctor>>

\* ----------------------------------------------------------------- helpers
Range(s) == {s[i] : i \in 1..Len(s)}

Min(a, b) == IF a < b THEN a ELSE b

\* list(set): a set appended to a list arrives in some order
Orders(S) == {s \in [1..Cardinality(S) -> S] : Range(s) = S}

\* a timestamp t ticks later
Later(stamp, t) == IF stamp = None THEN None ELSE Some(Min(stamp[1] + t, REQUEST_DELAY))

\* what requests.get() can bring
Responses ==
    [kind : {"ok"}, data : SUBSET Proxies]
        \cup [kind : {"api_error", "unknown_error", "failed"}, data : {{}}]

\* line 217: the finalized query holds the credential
Api(self) == "api" \in DOMAIN _params[self]

NoCall == [op |-> "none", self |-> "none", amount |-> 0,
           after_drain |-> FALSE, requested |-> FALSE]

\* --------------------------------------------------------- pieces of get()
\* lines 192-193
Unfiltered(self) == _proxies[self]

Blacklisted(self) ==
    IF _exclude_used[self]
    THEN SelectSeq(_proxies[self], LAMBDA p : p \notin used)
    ELSE _proxies[self]

\* line 196
LoopsEarlyExit(buf, amount) == Len(buf) + 1 < amount

LoopsOnEqual(buf, amount) == Len(buf) <= amount

NeedsFetch(buf, amount) == Len(buf) < amount

\* line 200: buf[:amount]
Dispensed(buf, amount) == SubSeq(buf, 1, Min(amount, Len(buf)))

\* line 201: buf[amount:]
Remainder(buf, amount) == SubSeq(buf, Min(amount, Len(buf)) + 1, Len(buf))

\* lines 204-205
UsedAssigned(self, t) == IF _exclude_used[self] THEN Range(t) ELSE used

UsedAfter(self, t) == IF _exclude_used[self] THEN used \cup Range(t) ELSE used

\* lines 199-207
Finish(self, amount, buf) ==
    /\ temp' = Dispensed(buf, amount)
    /\ _proxies' = [_proxies EXCEPT ![self] = Remainder(buf, amount)]
    /\ used' = UsedAfter(self, temp')
    /\ outcome' = "returned"
    /\ pc' = "idle"

\* ------------------------------------------------------- pieces of _fetch()
\* lines 216-220: the sleep before the request
WaitAlways(self) ==
    IF last_requested # None /\ last_requested[1] < REQUEST_DELAY
    THEN REQUEST_DELAY - last_requested[1]
    ELSE 0

Wait(self) ==
    IF last_requested # None /\ ~Api(self)
    THEN IF last_requested[1] < REQUEST_DELAY
         THEN REQUEST_DELAY - last_requested[1]
         ELSE 0
    ELSE 0

\* lines 226-230: the exception _fetch() raises on this response, or "none"
Swallowed(resp) == "none"

Raised(resp) ==
    CASE resp.kind = "api_error" -> "APIError"
      [] resp.kind = "unknown_error" -> "ProxyError"
      [] resp.kind = "failed" -> "RequestException"
      [] OTHER -> "none"

Unsubtracted(self, data) == data

Subtracted(self, data) == data \ used

\* lines 233-239
Fetched(self, data) == IF _exclude_used[self] THEN data \ used ELSE data

\* --------------------------------------------------------------- operations
\* get() from its first line to its return or to its first _fetch()
Enter(op, self, amount) ==
    /\ pc = "idle"
    /\ call' = [op |-> op, self |-> self, amount |-> amount,
                after_drain |-> call.op = "drain" /\ call.self = self
                                 /\ outcome = "returned",
                requested |-> FALSE]
    /\ LET buf == Blacklisted(self)
       IN  IF NeedsFetch(buf, amount)
           THEN /\ pc' = "fetch"
                /\ _proxies' = [_proxies EXCEPT ![self] = buf]
                /\ outcome' = "pending"
                /\ temp' = <<>>
                /\ UNCHANGED used
           ELSE Finish(self, amount, buf)
    /\ UNCHANGED <<last_requested, _exclude_used, _params, since_dispatch>>

\* lines 187-207
get(self, amount) == Enter("get", self, amount)

\* lines 183-185
drain(self) == Enter("drain", self, Len(_proxies[self]))

\* _fetch(), lines 216-220: the rate-limit sleep
_fetch_wait(self) ==
    /\ pc = "fetch"
    /\ self = call.self
    /\ last_requested' = Later(last_requested, Wait(self))
    /\ since_dispatch' = Later(since_dispatch, Wait(self))
    /\ pc' = "request"
    /\ UNCHANGED <<used, _proxies, _exclude_used, _params, call, outcome, temp>>

\* _fetch(), line 223: requests.get sends the request
_fetch_request(self) ==
    /\ pc = "request"
    /\ self = call.self
    /\ call' = [call EXCEPT !.requested = TRUE]
    /\ since_dispatch' = Some(0)
    /\ pc' = "response"
    /\ UNCHANGED <<last_requested, used, _proxies, _exclude_used, _params, outcome, temp>>

\* _fetch(), lines 223-239: requests.get returns or raises; then line 197 and,
\* when the loop ends with it, lines 199-207
_fetch_response(self, resp) ==
    /\ pc = "response"
    /\ self = call.self
    /\ last_requested' = IF resp.kind = "failed" THEN last_requested ELSE Some(0)
    /\ IF Raised(resp) # "none"
       THEN /\ outcome' = Raised(resp)
            /\ pc' = "idle"
            /\ UNCHANGED <<used, _proxies, temp>>
       ELSE \E new \in Orders(Fetched(self, resp.data)) :
              LET buf == _proxies[self] \o new
              IN  IF NeedsFetch(buf, call.amount)
                  THEN /\ _proxies' = [_proxies EXCEPT ![self] = buf]
                       /\ pc' = "fetch"
                       /\ UNCHANGED <<used, temp, outcome>>
                  ELSE Finish(self, call.amount, buf)
    /\ UNCHANGED <<_exclude_used, _params, call, since_dispatch>>

ResetUsedOnly ==
    /\ pc = "idle"
    /\ used' = {}
    /\ call' = [NoCall EXCEPT !.op = "reset"]
    /\ outcome' = "none"
    /\ temp' = <<>>
    /\ UNCHANGED <<last_requested, _proxies, _exclude_used, _params, pc,
                   since_dispatch>>

\* lines 29-31
reset ==
    /\ pc = "idle"
    /\ last_requested' = None
    /\ used' = {}
    /\ call' = [NoCall EXCEPT !.op = "reset"]
    /\ outcome' = "none"
    /\ temp' = <<>>
    /\ UNCHANGED <<_proxies, _exclude_used, _params, pc, since_dispatch>>

\* the clock: one tick passes
Tick ==
    /\ last_requested' = Later(last_requested, 1)
    /\ since_dispatch' = Later(since_dispatch, 1)
    /\ UNCHANGED <<used, _proxies, _exclude_used, _params, pc, call, outcome, temp>>

\* ------------------------------------------------------------ construction
\* A dict is a function on its keys.  An enum member is written by its name
\* ("Level.ELITE"), a str by its text; a countries value is a str or a list,
\* held as its comma-separated parts.
Empty == [k \in {} |-> k]

\* params[k] = v
Put(d, k, v) == [n \in DOMAIN d \cup {k} |-> IF n = k THEN v ELSE d[n]]

\* del params[k]
Del(d, k) == [n \in DOMAIN d \ {k} |-> d[n]]

\* lines 46-61; the options from port to user_agent are passed through alike
\* and stand behind "cookies"
_PARAMS == {"api_key", "level", "protocol", "countries", "not_countries",
            "last_checked", "time_to_connect", "cookies"}

\* lines 64-67
_PARAM_BOUNDS == [last_checked |-> <<1, 1000>>, time_to_connect |-> <<1, 60>>]

\* pubproxpy.types: the members of the enums and their values
Level == {"Level.ELITE"}
Protocol == {"Protocol.HTTP"}
EnumValue(member) ==
    CASE member = "Level.ELITE" -> "elite"
      [] member = "Protocol.HTTP" -> "http"

Str(text) == [list |-> FALSE, parts |-> <<text>>]
List(parts) == [list |-> TRUE, parts |-> parts]

\* ",".join(val)
Join(val) == [list |-> FALSE, parts |-> val.parts]

NotExclusive(params) == TRUE

\* lines 102-106
Exclusive(params) ==
    ~("countries" \in DOMAIN params /\ "not_countries" \in DOMAIN params)

StrictBounds(param, val) ==
    val > _PARAM_BOUNDS[param][1] /\ val < _PARAM_BOUNDS[param][2]

\* lines 125-132
InBounds(param, val) ==
    LET low == _PARAM_BOUNDS[param][1]
        high == _PARAM_BOUNDS[param][2]
    IN ~(val < low \/ val > high)

\* lines 95-132: TRUE when no ValueError is raised
_verify_params(params) ==
    /\ Exclusive(params)
    /\ "protocol" \in DOMAIN params => params["protocol"] \in Protocol
    /\ "level" \in DOMAIN params => params["level"] \in Level
    /\ \A param \in DOMAIN params :
          /\ param \in _PARAMS
          /\ param \in DOMAIN _PARAM_BOUNDS => InBounds(param, params[param])

\* lines 139-146
translations ==
    << <<"api_key", "api">>, <<"protocol", "type">>, <<"countries", "country">>,
       <<"not_countries", "not_country">>, <<"last_checked", "last_check">>,
       <<"time_to_connect", "speed">> >>

\* lines 148-151, from the i-th translation on
RECURSIVE RenameFrom(_, _)
RenameFrom(params, i) ==
    IF i > Len(translations) THEN params
    ELSE LET before == translations[i][1]
             after == translations[i][2]
         IN RenameFrom(IF before \in DOMAIN params
                       THEN Del(Put(params, after, params[before]), before)
                       ELSE params,
                       i + 1)

NoRename(params) == params

\* lines 134-153
_rename_params(params) == RenameFrom(params, 1)

\* lines 161-165
Limited(params) ==
    Put(Put(params, "format", "json"), "limit",
        IF "api" \in DOMAIN Put(params, "format", "json") THEN 20 ELSE 5)

\* lines 168-173
Joined(params) ==
    IF "country" \in DOMAIN params
    THEN (IF params["country"].list
          THEN Put(params, "country", Join(params["country"]))
          ELSE params)
    ELSE IF "not_country" \in DOMAIN params
    THEN (IF params["not_country"].list
          THEN Put(params, "not_country", Join(params["not_country"]))
          ELSE params)
    ELSE params

\* lines 176-179
Valued(params) ==
    [k \in DOMAIN params |->
        IF k \in {"level", "type"} THEN EnumValue(params[k]) ELSE params[k]]

\* lines 155-181
_format_params(params) == Valued(Joined(Limited(params)))

CallerFirst(params, env) ==
    IF env # None /\ "api_key" \notin DOMAIN params
    THEN Put(params, "api_key", env[1])
    ELSE params

\* lines 89-90
WithEnv(params, env) ==
    IF env # None THEN Put(params, "api_key", env[1]) ELSE params

\* lines 83-93 past the verification
_setup_params(params, env) == _format_params(_rename_params(WithEnv(params, env)))

NoCtor == [params |-> Empty, env |-> None, outcome |-> "none", _params |-> Empty]

\* lines 69-81: ProxyFetcher(**params) with PUBPROXY_API_KEY unset (None) or set
\* (Some(key)); _FetcherShared() on line 81 hands out the instance that exists
__init__(params, env) ==
    /\ pc = "idle"
    /\ ctor = NoCtor
    /\ ctor' = IF _verify_params(params)
               THEN [params |-> params, env |-> env, outcome |-> "constructed",
                     _params |-> _setup_params(params, env)]
               ELSE [params |-> params, env |-> env, outcome |-> "ValueError",
                     _params |-> Empty]
    /\ UNCHANGED <<last_requested, used, _proxies, _exclude_used, _params, pc, call,
                   outcome, temp, since_dispatch, log>>

\* self._shared (line 81): the one _FetcherShared instance every fetcher holds
_shared == [last_requested |-> last_requested, used |-> used]

\* ----------------------------------------------------------- specifications
\* lines 69-81 and 26-27: the fetchers are constructed, nothing is shared yet
Init ==
    /\ last_requested = None
    /\ used = {}
    /\ _proxies = [f \in Fetchers |-> <<>>]
    /\ _exclude_used \in {x \in [Fetchers -> BOOLEAN] : x["pf1"]}
    /\ _params \in {x \in [Fetchers -> {AnonParams, PremiumParams}] : x["pf1"] = AnonParams}
    /\ pc = "idle"
    /\ call = NoCall
    /\ outcome = "none"
    /\ temp = <<>>
    /\ since_dispatch = None
    /\ log = <<>>
    /\ ctor = NoCtor

CallsNext ==
    \/ \E self \in Fetchers, amount \in 0..MaxAmount : get(self, amount) /\ UNCHANGED <<log, ctor>>
    \/ \E self \in Fetchers : drain(self) /\ UNCHANGED <<log, ctor>>
    \/ \E self \in Fetchers : _fetch_wait(self) /\ UNCHANGED <<log, ctor>>
    \/ \E self \in Fetchers : _fetch_request(self) /\ UNCHANGED <<log, ctor>>
    \/ \E self \in Fetchers, resp \in Responses : _fetch_response(self, resp) /\ UNCHANGED <<log, ctor>>
    \/ Tick /\ UNCHANGED <<log, ctor>>

Next ==
    \/ CallsNext
    \/ reset /\ UNCHANGED <<log, ctor>>

\* any use of the fetchers and of the shared state
Spec == Init /\ [][Next]_vars

\* any sequence of get/drain calls, the shared state never reset
CallsSpec == Init /\ [][CallsNext]_vars

\* test_blacklist (lines 118-128): exclusion-enabled fetchers, an upstream that
\* answers every request with the same proxies, get(1) calls in any order
BlacklistInit ==
    /\ Init
    /\ \A f \in Fetchers : _exclude_used[f]

GoodResp == [kind |-> "ok", data |-> Proxies]

Logged(self) == log \o [i \in 1..Len(temp') |-> <<self, temp'[i]>>]

BlacklistNext ==
    \/ \E self \in Fetchers : get(self, 1) /\ log' = Logged(self) /\ UNCHANGED ctor
    \/ \E self \in Fetchers : _fetch_wait(self) /\ UNCHANGED <<log, ctor>>
    \/ \E self \in Fetchers : _fetch_request(self) /\ UNCHANGED <<log, ctor>>
    \/ \E self \in Fetchers : _fetch_response(self, GoodResp) /\ log' = Logged(self) /\ UNCHANGED ctor
    \/ Tick /\ UNCHANGED <<log, ctor>>

BlacklistSpec == BlacklistInit /\ [][BlacklistNext]_vars

\* the interpreter keeps running the call it is in: a sleep ends, a request is
\* sent and answered
FairBlacklistSpec ==
    /\ BlacklistSpec
    /\ WF_vars(\E self \in Fetchers : _fetch_wait(self) /\ UNCHANGED <<log, ctor>>)
    /\ WF_vars(\E self \in Fetchers : _fetch_request(self) /\ UNCHANGED <<log, ctor>>)
    /\ WF_vars(\E self \in Fetchers : _fetch_response(self, GoodResp) /\ log' = Logged(self) /\ UNCHANGED ctor)

\* test_params (lines 57-115): one fetcher is constructed, with any of these
\* keyword arguments and with or without the environment's credential, in a
\* process whose shared state is fresh or in use
Values(name) ==
    CASE name = "api_key" -> {"<key>"}
      [] name = "level" -> {"Level.ELITE", "elite"}
      [] name = "protocol" -> {"Protocol.HTTP", "http"}
      [] name = "countries" -> {Str("US"), List(<<"CA", "NK">>)}
      [] name = "not_countries" -> {List(<<"CA", "NK">>)}
      [] name = "last_checked" ->
            {_PARAM_BOUNDS.last_checked[1] - 1, _PARAM_BOUNDS.last_checked[1],
             _PARAM_BOUNDS.last_checked[2], _PARAM_BOUNDS.last_checked[2] + 1}
      [] name = "time_to_connect" ->
            {_PARAM_BOUNDS.time_to_connect[1] - 1, _PARAM_BOUNDS.time_to_connect[1],
             _PARAM_BOUNDS.time_to_connect[2], _PARAM_BOUNDS.time_to_connect[2] + 1}
      [] name = "cookies" -> {TRUE}
      [] name = "api" -> {"<raw>"}

\* every dict with keys among names
RECURSIVE Dicts(_)
Dicts(names) ==
    IF names = {} THEN {Empty}
    ELSE LET name == CHOOSE n \in names : TRUE
             rest == Dicts(names \ {name})
         IN rest \cup {Put(d, name, v) : d \in rest, v \in Values(name)}

\* the keyword arguments a caller may write: the options and an upstream name
Kwargs == Dicts(_PARAMS \cup {"api"})

Environ == {None, Some("<env>")}

SetupInit ==
    /\ last_requested \in {None, Some(0)}
    /\ used \in {{}, Proxies}
    /\ _proxies = [f \in Fetchers |-> <<>>]
    /\ _exclude_used = [f \in Fetchers |-> TRUE]
    /\ _params = [f \in Fetchers |-> AnonParams]
    /\ pc = "idle"
    /\ call = NoCall
    /\ outcome = "none"
    /\ temp = <<>>
    /\ since_dispatch = last_requested
    /\ log = <<>>
    /\ ctor = NoCtor

SetupNext ==
    /\ ctor = NoCtor
    /\ \E params \in Kwargs, env \in Environ : __init__(params, env)

SetupSpec == SetupInit /\ [][SetupNext]_vars

\* ------------------------------------------------------------------- claims
\* the step enters a call of fetcher self: from "idle", get() and drain() alone
\* name a fetcher in call, and the clock alone leaves all of these unchanged
Entry(self) ==
    /\ pc = "idle"
    /\ call'.self = self
    /\ <<pc, call, outcome, temp, used, _proxies>>' # <<pc, call, outcome, temp, used, _proxies>>

\* the step takes the response to a request of fetcher self: only
\* _fetch_response leaves "response"
Response(self) == pc = "response" /\ pc' # "response" /\ call.self = self

\* the step ends a call of fetcher self with a result
Returns(self) == outcome' = "returned" /\ (Response(self) \/ Entry(self))

NoRepeat(s) == \A i, j \in 1..Len(s) : i # j => s[i] # s[j]

Proxy(e) == e[2]

LogProxies == [i \in 1..Len(log) |-> Proxy(log[i])]

\* C1: with two exclusion-enabled fetchers and an upstream that returns the same
\* proxies on every request, interleaved get(1) calls never return a proxy that an
\* earlier get(1) of either fetcher returned, and once as many calls have returned
\* as the upstream has proxies, the results are all of the upstream's proxies.
C1_BlacklistShared ==
    /\ NoRepeat(LogProxies)
    /\ Len(log) = NumProxies => Range(LogProxies) = Proxies

\* C1, reached: every proxy has been handed out, some by each of the fetchers
C1_Witness ==
    /\ Len(log) = NumProxies
    /\ {log[i][1] : i \in 1..Len(log)} = Fetchers

\* C2: a fetcher without a credential dispatches a request no earlier than
\* REQUEST_DELAY after last_requested, whoever recorded it, and hence no earlier
\* than REQUEST_DELAY after the dispatch of the request before it.
C2_RequestsApart ==
    (pc = "request" /\ ~Api(call.self)) =>
        /\ last_requested # None => last_requested[1] >= REQUEST_DELAY
        /\ since_dispatch # None => since_dispatch[1] >= REQUEST_DELAY

\* C3: a fetcher whose query holds the credential never sleeps before a request:
\* no time passes in its _fetch() between the entry and the request.
C3_PremiumNeverWaits ==
    [][\A self \in Fetchers :
         (_fetch_wait(self) /\ Api(self)) =>
             /\ last_requested' = last_requested
             /\ since_dispatch' = since_dispatch]_vars

\* C3, reached: a fetcher with the credential is at its request less than a
\* window after the last request was answered
C3_Witness ==
    /\ pc = "request"
    /\ Api(call.self)
    /\ last_requested # None
    /\ last_requested[1] < REQUEST_DELAY

IsPrefix(s, t) == Len(s) <= Len(t) /\ SubSeq(t, 1, Len(s)) = s

\* C4: whenever a call returns, the result has exactly `amount` elements, and the
\* result followed by the buffer it leaves is the buffer as filtered and refilled:
\* the filtered buffer the step found, then what the step fetched (nothing when the
\* call returns without a request of its own).
C4_ExactAmount ==
    [][\A self \in Fetchers :
         Returns(self) =>
             /\ Len(temp') = call'.amount
             /\ IF Response(self)
                THEN IsPrefix(_proxies[self], temp' \o _proxies'[self])
                ELSE temp' \o _proxies'[self] = Blacklisted(self)]_vars

\* C4, reached: a get(MaxAmount) has returned after a refill and left proxies
C4_Witness ==
    /\ outcome = "returned"
    /\ call.op = "get"
    /\ call.amount = MaxAmount
    /\ call.requested
    /\ Len(temp) = MaxAmount
    /\ _proxies[call.self] # <<>>

\* C5: drain() returns what remains buffered: it issues no upstream request, what
\* it returns was in the fetcher's buffer when it was called, and the buffer is
\* empty afterwards.
C5_DrainReturnsBuffered ==
    /\ [](call.op = "drain" =>
            /\ pc = "idle"
            /\ ~call.requested
            /\ outcome = "returned" => _proxies[call.self] = <<>>)
    /\ [][\A self \in Fetchers :
            (drain(self) /\ outcome' = "returned") =>
                Range(temp') \subseteq Range(_proxies[self])]_vars

\* the call is a get(1) that directly follows a drain() of the same fetcher
Get1AfterDrain(c) == c.op = "get" /\ c.amount = 1 /\ c.after_drain

\* C6, as claimed: a get(1) right after a drain() of the same fetcher issues
\* exactly one upstream request: it issues one, and is over after its first.
C6_ExactlyOneRequest ==
    [][\A self \in Fetchers :
         /\ (Entry(self) /\ Get1AfterDrain(call')) => pc' = "fetch"
         /\ (Get1AfterDrain(call) /\ Response(self)) => pc' = "idle"]_vars

\* C6, amended: such a get(1) issues no request when drain() left a proxy that is
\* not excluded, and one otherwise; after each request it is over when the
\* response is an error or brings a proxy of its own, and issues another request
\* when the response brings none.
C6_OneRequestPerEmptyAnswer ==
    [][\A self \in Fetchers :
         /\ (Entry(self) /\ Get1AfterDrain(call')) =>
                (pc' = "fetch" <=> Blacklisted(self) = <<>>)
         /\ (Get1AfterDrain(call) /\ Response(self)) =>
                \A resp \in Responses :
                    _fetch_response(self, resp) =>
                        /\ pc' = "idle" <=>
                               (Raised(resp) # "none" \/ Fetched(self, resp.data) # {})
                        /\ pc' # "idle" => pc' = "fetch"]_vars

\* C6, reached: a get(1) right after a drain() has returned a fetched proxy
C6_Witness ==
    /\ Get1AfterDrain(call)
    /\ call.requested
    /\ outcome = "returned"
    /\ Len(temp) = 1

\* C7: get(0) returns an empty sequence at once, without an upstream request, and
\* leaves last_requested and the used-set as they are.
C7_GetZero ==
    [][\A self \in Fetchers :
         (call'.amount = 0 /\ call'.self = self /\ get(self, 0)) =>
             /\ pc' = "idle"
             /\ outcome' = "returned"
             /\ temp' = <<>>
             /\ ~call'.requested
             /\ used' = used
             /\ last_requested' = last_requested]_vars

\* C7, reached: get(0) has returned on a fetcher that holds proxies, with proxies
\* used and a request recorded
C7_Witness ==
    /\ call.op = "get"
    /\ call.amount = 0
    /\ outcome = "returned"
    /\ _proxies[call.self] # <<>>
    /\ used # {}
    /\ last_requested # None

\* C8: the used-set never loses an element unless reset() is called, and a call
\* that returns on an exclusion-enabled fetcher leaves the used-set as it was,
\* united with the proxies returned.
C8_UsedGrows ==
    [][/\ used \subseteq used' \/ reset
       /\ \A self \in Fetchers :
            (Returns(self) /\ _exclude_used[self]) =>
                used' = used \cup Range(temp')]_vars

\* C8, reached: an exclusion-enabled fetcher has returned proxies into a used-set
\* that held others
C8_Witness ==
    /\ outcome = "returned"
    /\ call.self \in Fetchers
    /\ _exclude_used[call.self]
    /\ temp # <<>>
    /\ Range(temp) \subseteq used
    /\ used # Range(temp)

\* C9: get(amount) always terminates, also when every response is fully excluded
\* by the used-set.
C9_GetTerminates == (pc # "idle") ~> (pc = "idle")

\* C10: when a request is answered with an error (a known error message or other
\* unparseable text), the call raises it at once, without another request,
\* returns nothing and leaves the used-set unchanged.
C10_ErrorRaised ==
    [][\A self \in Fetchers :
         Response(self) =>
             \A resp \in [kind : {"api_error", "unknown_error"}, data : {{}}] :
                 _fetch_response(self, resp) =>
                     /\ pc' = "idle"
                     /\ outcome' = (IF resp.kind = "api_error" THEN "APIError"
                                    ELSE "ProxyError")
                     /\ temp' = <<>>
                     /\ used' = used]_vars

\* C10, reached: a call has raised the upstream's error while proxies were used
\* and buffered
C10_Witness ==
    /\ outcome \in {"APIError", "ProxyError"}
    /\ pc = "idle"
    /\ call.requested
    /\ used # {}
    /\ _proxies[call.self] # <<>>

\* the names a caller writes that the upstream spells otherwise
CallerNames == {translations[i][1] : i \in 1..Len(translations)}

\* the names the upstream is sent: the translated ones, the options passed
\* through and the two the client sets
UpstreamNames ==
    {translations[i][2] : i \in 1..Len(translations)}
        \cup (_PARAMS \ CallerNames) \cup {"format", "limit"}

\* C11: whenever a fetcher is constructed, its finalized parameters hold format =
\* json and a limit that is 20 exactly when they hold api and 5 otherwise, and
\* every name in them is an upstream name, none a caller-facing one.
C11_FinalizedParams ==
    ctor.outcome = "constructed" =>
        /\ {"format", "limit"} \subseteq DOMAIN ctor._params
        /\ ctor._params["format"] = "json"
        /\ ctor._params["limit"] = (IF "api" \in DOMAIN ctor._params THEN 20 ELSE 5)
        /\ DOMAIN ctor._params \subseteq UpstreamNames
        /\ DOMAIN ctor._params \cap CallerNames = {}

\* C11, reached: a fetcher constructed from every option a valid call can carry
C11_Witness ==
    /\ ctor.outcome = "constructed"
    /\ DOMAIN ctor.params = _PARAMS \ {"not_countries"}
    /\ ctor.params["countries"].list
    /\ ctor.env = None

\* the options verification looks at besides the bounds are acceptable
OtherwiseValid(params) ==
    /\ DOMAIN params \subseteq _PARAMS
    /\ Exclusive(params)
    /\ "level" \in DOMAIN params => params["level"] \in Level
    /\ "protocol" \in DOMAIN params => params["protocol"] \in Protocol

Has(params, name, values) == name \in DOMAIN params /\ params[name] \in values

\* C12: a construction with last_checked outside 1..1000 or time_to_connect
\* outside 1..60 fails with the configuration error, and one whose other options
\* are acceptable and whose bounded options lie within these ranges, endpoints
\* included, succeeds.
C12_Bounds ==
    ctor.outcome # "none" =>
        /\ (\/ Has(ctor.params, "last_checked", Int \ (1..1000))
            \/ Has(ctor.params, "time_to_connect", Int \ (1..60)))
              => ctor.outcome = "ValueError"
        /\ (/\ OtherwiseValid(ctor.params)
            /\ "last_checked" \in DOMAIN ctor.params
                  => ctor.params["last_checked"] \in 1..1000
            /\ "time_to_connect" \in DOMAIN ctor.params
                  => ctor.params["time_to_connect"] \in 1..60)
              => ctor.outcome = "constructed"

\* C12, reached: a fetcher constructed with both bounded options at an endpoint
C12_Witness ==
    /\ ctor.outcome = "constructed"
    /\ Has(ctor.params, "last_checked", {1000})
    /\ Has(ctor.params, "time_to_connect", {1})

\* C13: a construction given both countries and not_countries ends with the
\* configuration error whatever else it is given, and the step changes nothing
\* of the shared state or of any fetcher and issues no request.
C13_MutuallyExclusive ==
    [][(/\ ctor' # ctor
        /\ {"countries", "not_countries"} \subseteq DOMAIN ctor'.params)
          => /\ ctor'.outcome = "ValueError"
             /\ UNCHANGED <<last_requested, used, since_dispatch, _proxies,
                            _params, pc, call>>]_vars

\* C13, reached: such a construction, of otherwise acceptable options, has failed
\* in a process whose shared state is in use
C13_Witness ==
    /\ ctor.outcome = "ValueError"
    /\ {"countries", "not_countries"} \subseteq DOMAIN ctor.params
    /\ DOMAIN ctor.params \subseteq _PARAMS
    /\ Has(ctor.params, "level", Level)
    /\ Has(ctor.params, "last_checked", {1})
    /\ used # {}
    /\ last_requested # None

\* C14: a constructed fetcher's api is the environment's credential when that is
\* set, also when the caller gave another api_key; otherwise it is the caller's
\* api_key when one was given, and absent when none was.
C14_Credential ==
    ctor.outcome = "constructed" =>
        IF ctor.env # None
        THEN Has(ctor._params, "api", {ctor.env[1]})
        ELSE IF "api_key" \in DOMAIN ctor.params
        THEN Has(ctor._params, "api", {ctor.params["api_key"]})
        ELSE "api" \notin DOMAIN ctor._params

\* C14, reached: a fetcher constructed with an api_key that differs from the
\* environment's credential
C14_Witness ==
    /\ ctor.outcome = "constructed"
    /\ ctor.env # None
    /\ "api_key" \in DOMAIN ctor.params
    /\ ctor.params["api_key"] # ctor.env[1]

\* C15: every upstream request, however it ends and whoever issues it, leaves
\* last_requested at the time the request ended.
C15_AlwaysRecorded ==
    [][\A self \in Fetchers : Response(self) => last_requested' = Some(0)]_vars

\* C16: a call that returns on an exclusion-enabled fetcher returns no proxy that
\* was in the used-set when the call started (the used-set does not change while
\* a call runs, so that is the used-set the returning step finds).
C16_NeverUsed ==
    [][\A self \in Fetchers :
         /\ (Returns(self) /\ _exclude_used[self]) => Range(temp') \cap used = {}
         /\ pc # "idle" => (pc' = "idle" \/ used' = used)]_vars

\* C16, reached: an exclusion-enabled fetcher has returned the last proxies left
\* after a refill, the others having been dispensed before
C16_Witness ==
    /\ outcome = "returned"
    /\ call.self \in Fetchers
    /\ _exclude_used[call.self]
    /\ call.requested
    /\ temp # <<>>
    /\ Len(temp) < NumProxies
    /\ used = Proxies

\* C17: an exclusion-enabled fetcher's buffer never holds a proxy at two
\* positions, and no call on it returns a proxy twice.
C17_NoDuplicates ==
    \A self \in Fetchers :
        _exclude_used[self] =>
            /\ NoRepeat(_proxies[self])
            /\ (outcome = "returned" /\ call.self = self) => NoRepeat(temp)

\* C18: a call issues its first request exactly when the filtered buffer holds
\* fewer than `amount` proxies; otherwise it returns at once from the buffer alone,
\* without a request and with last_requested as it was; and while the call runs
\* the buffer holds fewer than `amount`, so the request whose response fills it is
\* the last.
C18_FetchOnlyWhenShort ==
    [][\A self \in Fetchers :
         /\ Entry(self) =>
               IF Len(Blacklisted(self)) < call'.amount
               THEN pc' = "fetch"
               ELSE /\ pc' = "idle"
                    /\ outcome' = "returned"
                    /\ ~call'.requested
                    /\ last_requested' = last_requested
                    /\ temp' \o _proxies'[self] = Blacklisted(self)
         /\ (pc' # "idle" /\ call'.self = self) => Len(_proxies'[self]) < call'.amount
         /\ (Response(self) /\ outcome' = "returned") =>
               Len(temp') + Len(_proxies'[self]) >= call.amount]_vars

\* C18, reached: a get(1) has been served from the buffer alone, which an earlier
\* request had filled
C18_Witness ==
    /\ outcome = "returned"
    /\ call.op = "get"
    /\ call.amount = 1
    /\ ~call.requested
    /\ Len(temp) = 1
    /\ last_requested # None

\* the response `data` is taken whole: every proxy in it is in the result or in
\* the buffer afterwards
TakesWhole(self, data) ==
    /\ _fetch_response(self, [kind |-> "ok", data |-> data])
    /\ Range(temp' \o _proxies'[self]) = Range(_proxies[self]) \cup data
    /\ UNCHANGED <<log, ctor>>

\* C19: a step of a call on a fetcher without exclusion leaves the used-set as it
\* is; the call takes its buffer unfiltered and a response of every proxy whole; and it
\* sleeps out the rate limit (without a credential) and records its requests like
\* any other fetcher.
C19_NoExclusion ==
    /\ [](\A self \in Fetchers :
            (pc = "response" /\ call.self = self /\ ~_exclude_used[self]) =>
                ENABLED TakesWhole(self, Proxies))
    /\ [][\A self \in Fetchers :
         ~_exclude_used[self] =>
            /\ (Entry(self) \/ (pc # "idle" /\ call.self = self)) => used' = used
            /\ (Entry(self) /\ pc' = "idle") => temp' \o _proxies'[self] = _proxies[self]
            /\ (Entry(self) /\ pc' # "idle") => _proxies'[self] = _proxies[self]
            /\ (Response(self) /\ outcome' \in {"pending", "returned"}) =>
                  last_requested' = Some(0)
            /\ (pc = "fetch" /\ call.self = self /\ pc' = "request"
                  /\ ~Api(self) /\ last_requested # None) =>
                  last_requested'[1] >= REQUEST_DELAY]_vars

\* C19, reached: a fetcher without exclusion has returned, after a request, a
\* proxy that an exclusion-enabled fetcher dispensed before
C19_Witness ==
    /\ outcome = "returned"
    /\ call.self \in Fetchers
    /\ ~_exclude_used[call.self]
    /\ call.requested
    /\ temp # <<>>
    /\ Range(temp) \subseteq used

\* C20: reset() leaves the one shared state with no last request and an empty
\* used-set and every buffer as it was; from then until a request is answered no
\* fetcher sleeps before its request, and as long as the used-set is empty a call
\* takes its buffer and a response of every proxy whole.
C20_Reset ==
    /\ [](\A self \in Fetchers :
            (pc = "response" /\ call.self = self /\ used = {}) =>
                ENABLED TakesWhole(self, Proxies))
    /\ [][/\ (pc = "idle" /\ call'.op = "reset") =>
               /\ _shared' = [last_requested |-> None, used |-> {}]
               /\ _proxies' = _proxies
          /\ (last_requested = None /\ pc # "response") => last_requested' = None
          /\ (last_requested = None /\ pc = "fetch" /\ pc' = "request") =>
               since_dispatch' = since_dispatch
          /\ \A self \in Fetchers :
               (used = {} /\ Entry(self)) =>
                  /\ pc' = "idle" => temp' \o _proxies'[self] = _proxies[self]
                  /\ pc' # "idle" => _proxies'[self] = _proxies[self]]_vars

\* C20, reached: after a reset, a fetcher without credential is at its request
\* less than a window after the previous request was sent, and an
\* exclusion-enabled fetcher still holds its buffer
C20_Witness ==
    /\ pc = "request"
    /\ ~Api(call.self)
    /\ _shared = [last_requested |-> None, used |-> {}]
    /\ since_dispatch # None
    /\ since_dispatch[1] < REQUEST_DELAY
    /\ \E f \in Fetchers : _exclude_used[f] /\ _proxies[f] # <<>>
====
